---- MODULE Spec2Model ----
(***************************************************************************)
(* Model of the two analysis notebooks of the repository.                  *)
(*                                                                         *)
(*   src/code_round_2.ipynb  the PySpark pipeline (session, Task 1..6,     *)
(*                           final cell), run as the script its first line *)
(*                           makes it: Spec, and SpecIngest on files that  *)
(*                           try every declared range; SpecOps applies the *)
(*                           filters and the interpolation to any dataset  *)
(*   src/unnamed/part_000    the pandas notebook (read_csv, duplicate      *)
(*                           detection, compute_stats): SpecNb1            *)
(*                                                                         *)
(* Numbers.  Every FloatType column is held as an integer number of        *)
(* 1/Scale units (Scale = 20, so that the factor 0.05 of Task 5 is exactly *)
(* 1/Scale).  Floating-point rounding is not modelled.  The mean and the   *)
(* standard deviation are held by their sufficient statistics (count, sum, *)
(* sum of squares) and compared exactly.                                   *)
(*                                                                         *)
(* Datasets are sequences of rows (one partition, in file order).          *)
(***************************************************************************)
EXTENDS Integers, Sequences, FiniteSets, TLC

\* ------------------------------------------------------------------ bounds

\* Longest source file the pipeline specification reads.
MaxRows == 3

\* Longest dataset the filters and the interpolation are applied to on their
\* own.
MaxOpRows == 3

\* Longest train.csv of the first notebook.
MaxCsvRows == 3

\* How many times the duplicates cell of the first notebook is run.
MaxDedupRuns == 2

\* Most rows inside every range, and most rows outside a range, in a file of
\* the ingestion specification.
MaxGoodRows == 2

MaxBadRows == 1

\* ------------------------------------------------------------ value domain

\* 1/Scale is the resolution of a stored value: 0.05 = 1/Scale.
Scale == 20

\* A missing value (every StructField of the schema is nullable).
NULL == -99999

\* A row of the schema.  ts is an integer, the others are in 1/Scale units.
Row(ts, sm, swc, c, n, h, t, ph) ==
  [timestamp |-> ts, soil_moisture |-> sm, soil_water_content |-> swc,
   carbon_percent |-> c, nitrogen_percent |-> n, atmospheric_humidity |-> h,
   temperature |-> t, pH |-> ph]

\* ------------------------------------------- SQL three-valued expressions

\* Column.between(lo, hi): (col >= lo) & (col <= hi); null on a null input.
Between(v, lo, hi) ==
  IF v = NULL THEN "null"
  ELSE IF lo <= v /\ v <= hi THEN "true" ELSE "false"

\* Column & Column under SQL three-valued logic.
And3(a, b) ==
  IF a = "false" \/ b = "false" THEN "false"
  ELSE IF a = "null" \/ b = "null" THEN "null"
  ELSE "true"

\* col > k, col < k.
Gt3(v, k) == IF v = NULL THEN "null" ELSE IF v > k THEN "true" ELSE "false"

Lt3(v, k) == IF v = NULL THEN "null" ELSE IF v < k THEN "true" ELSE "false"

\* ---------------------------------------------------------- Task 1 filter

\* The range condition with the test of temperature left out.
RangeCondNoTemperature(r) ==
  And3(And3(And3(And3(And3(
    Between(r.soil_moisture, 0 * Scale, 100 * Scale),
    Between(r.soil_water_content, 0 * Scale, 100 * Scale)),
    Between(r.carbon_percent, 0 * Scale, 10 * Scale)),
    Between(r.nitrogen_percent, 0 * Scale, 5 * Scale)),
    Between(r.atmospheric_humidity, 0 * Scale, 100 * Scale)),
    Between(r.pH, 4 * Scale, 9 * Scale))

\* The range condition of Task 1, as a three-valued expression over a row.
RangeCond(r) ==
  And3(And3(And3(And3(And3(And3(
    Between(r.soil_moisture, 0 * Scale, 100 * Scale),
    Between(r.soil_water_content, 0 * Scale, 100 * Scale)),
    Between(r.carbon_percent, 0 * Scale, 10 * Scale)),
    Between(r.nitrogen_percent, 0 * Scale, 5 * Scale)),
    Between(r.atmospheric_humidity, 0 * Scale, 100 * Scale)),
    Between(r.temperature, 0 * Scale, 40 * Scale)),
    Between(r.pH, 4 * Scale, 9 * Scale))

\* A range filter that also keeps the rows whose range test is unknown.
IngestFilterKeepsUnknown(rows) == SelectSeq(rows, LAMBDA r : RangeCond(r) # "false")

\* DataFrame.filter keeps the rows whose condition is true (not false, not null).
IngestFilter(rows) == SelectSeq(rows, LAMBDA r : RangeCond(r) = "true")

\* ------------------------------------------------------------- aggregates

RECURSIVE SumSeq(_)
\* Sum of a sequence of integers.
SumSeq(s) == IF s = <<>> THEN 0 ELSE Head(s) + SumSeq(Tail(s))

RECURSIVE ColumnValues(_, _)
\* The non-null values of column col, in row order (aggregates skip nulls).
ColumnValues(ds, col) ==
  IF ds = <<>> THEN <<>>
  ELSE (IF Head(ds)[col] = NULL THEN <<>> ELSE <<Head(ds)[col]>>)
       \o ColumnValues(Tail(ds), col)

\* Squares of a sequence of integers.
Squares(s) == [i \in 1..Len(s) |-> s[i] * s[i]]

\* select(mean(col), stddev(col)): held as count n, sum and sum of squares.
\* mean = sum / n and stddev^2 = (n*sumsq - sum^2) / (n*(n-1)).
MeanStddev(ds, col) ==
  LET v == ColumnValues(ds, col)
  IN  [n |-> Len(v), sum |-> SumSeq(v), sumsq |-> SumSeq(Squares(v))]

\* mean(col) is null over no value.
MeanIsNull(st) == st.n = 0

\* stddev(col) (stddev_samp) is null over fewer than two values.
StddevIsNull(st) == st.n < 2

\* n*(n-1) times the sample variance: zero exactly when stddev is zero.
VarNum(st) == st.n * st.sumsq - st.sum * st.sum

\* ----------------------------------------------------------------- sample

RECURSIVE Pick(_, _, _)
\* The rows of ds at the positions i, i+1, ... that keep selects.
Pick(ds, keep, i) ==
  IF i > Len(ds) THEN <<>>
  ELSE (IF keep[i] THEN <<ds[i]>> ELSE <<>>) \o Pick(ds, keep, i + 1)

\* DataFrame.sample(fraction=0.001, seed=42): the generator seeded with 42
\* decides, position by position in the dataset it is given, which rows are
\* drawn; keep[i] is its decision for the i-th row.
Sample(ds, keep) == Pick(ds, keep, 1)

\* ---------------------------------------------------------- Task 2 filter

\* ((col - mean) / stddev).between(-3, 3) for value v, three-valued.
\* With d = n*v - sum (the sign of v - mean) and z = (v - mean) / stddev:
\*   z^2 <= 9  <=>  d^2 * (n-1) <= 9 * n * VarNum.
\* A null operand makes the expression null; so does a zero divisor
\* (spark.sql.ansi.enabled is not set by the session builder).
ZScoreBetween(v, st) ==
  IF v = NULL \/ MeanIsNull(st) \/ StddevIsNull(st) THEN "null"
  ELSE IF VarNum(st) = 0 THEN "null"
  ELSE LET d == st.n * v - st.sum
           within == d * d * (st.n - 1) <= 9 * st.n * VarNum(st)
       IN  And3(IF d >= 0 \/ within THEN "true" ELSE "false",
                IF d <= 0 \/ within THEN "true" ELSE "false")

\* df.filter(zscore.between(-3, 3)) with the estimates st.
ZScoreFilter(ds, st) ==
  SelectSeq(ds, LAMBDA r : ZScoreBetween(r.soil_moisture, st) = "true")

\* stats_row of Task 2: mean and stddev of soil_moisture over the sample.
SampleStats(ds, keep) == MeanStddev(Sample(ds, keep), "soil_moisture")

\* Task 2 estimating from the whole dataset instead of the sample.
OutlierFilterUnsampled(ds, keep) ==
  ZScoreFilter(ds, MeanStddev(ds, "soil_moisture"))

\* Task 2 as a whole on the dataset it is given: estimate, then filter.
OutlierFilter(ds, keep) == ZScoreFilter(ds, SampleStats(ds, keep))

\* ---------------------------------------------------------- Task 3 filter

\* (col("soil_moisture") > 80) & (col("pH") < 5)
PredicateCond(r) == And3(Gt3(r.soil_moisture, 80 * Scale), Lt3(r.pH, 5 * Scale))

\* filtered_df of Task 3.
PredicateFilter(ds) == SelectSeq(ds, LAMBDA r : PredicateCond(r) = "true")

\* ------------------------------------------------------ Task 4 statistics

\* percentile_approx(col, p, 1000) with p = pnum/pden: on at most 1000
\* values the sketch is exact and returns the value of rank ceil(p*n) in
\* ascending order (rank 1 at least); null over no value.
PercentileApprox(ds, col, pnum, pden) ==
  LET v == SortSeq(ColumnValues(ds, col), LAMBDA a, b : a < b)
      n == Len(v)
      k == (pnum * n + pden - 1) \div pden
  IN  IF n = 0 THEN NULL ELSE v[IF k < 1 THEN 1 ELSE k]

\* The aggregates Task 4 selects for one column.
ColumnStats(ds, col) ==
  [ms     |-> MeanStddev(ds, col),
   median |-> PercentileApprox(ds, col, 1, 2),
   q1     |-> PercentileApprox(ds, col, 1, 4),
   q3     |-> PercentileApprox(ds, col, 3, 4)]

\* stats of Task 4 (the collected Row).
StatSummary(ds) ==
  [carbon |-> ColumnStats(ds, "carbon_percent"),
   nitrogen |-> ColumnStats(ds, "nitrogen_percent")]

\* The f-strings of Task 4 format every aggregate with :.2f (and subscript
\* the quartiles); a None among them raises TypeError.
FormatRaises(cs) ==
  MeanIsNull(cs.ms) \/ StddevIsNull(cs.ms) \/ cs.median = NULL \/ cs.q1 = NULL

\* -------------------------------------------------- Task 5 interpolation

\* The new column carbon_percent_interp is held in 1/(Scale*Scale) units, in
\* which both branches are exact:
\*   soil_moisture * 0.05 = (v/Scale) * (1/Scale)  is stored as  v
\*   carbon_percent       = v/Scale                is stored as  v * Scale

\* col("soil_moisture") * 0.05; null on a null input.
TimesPoint05(v) == IF v = NULL THEN NULL ELSE v

\* col("carbon_percent") carried over to the new column.
AsInterp(v) == IF v = NULL THEN NULL ELSE v * Scale

\* when(carbon_percent.isNull(), soil_moisture * 0.05).otherwise(carbon_percent)
InterpValue(r) ==
  IF r.carbon_percent = NULL THEN TimesPoint05(r.soil_moisture)
  ELSE AsInterp(r.carbon_percent)

\* The interpolation written back into carbon_percent as well.
InterpRowOverwriting(r) ==
  [c \in DOMAIN r \cup {"carbon_percent_interp"} |->
     IF c = "carbon_percent_interp" THEN InterpValue(r)
     ELSE IF c = "carbon_percent" /\ r[c] = NULL
          THEN TimesPoint05(r.soil_moisture)
          ELSE r[c]]

\* withColumn("carbon_percent_interp", ...): the row with one more column.
InterpRow(r) ==
  [c \in DOMAIN r \cup {"carbon_percent_interp"} |->
     IF c = "carbon_percent_interp" THEN InterpValue(r) ELSE r[c]]

\* df_interp of Task 5.
Interpolate(ds) == [i \in 1..Len(ds) |-> InterpRow(ds[i])]

RECURSIVE SetToSeq(_)
\* The elements of a finite set as a sequence, in some order.
SetToSeq(S) ==
  IF S = {} THEN <<>>
  ELSE LET x == CHOOSE y \in S : TRUE IN <<x>> \o SetToSeq(S \ {x})

\* ------------------------------------------- first notebook: pandas frame

\* A missing value of a pandas column.
NaN == NULL

\* df = pd.read_csv('train.csv'): the rows under a RangeIndex 0, 1, ...
ReadCsv(rows) ==
  [i \in 1..Len(rows) |->
     [index |-> i - 1, sensor_reading |-> rows[i][1],
      control_value |-> rows[i][2]]]

\* The values of a row of the frame, without its index label.
RowValues(r) == [c \in DOMAIN r \ {"index"} |-> r[c]]

\* How many rows of the frame hold the values v.
Occurrences(frame, v) ==
  Cardinality({i \in 1..Len(frame) : RowValues(frame[i]) = v})

\* duplicated() with its default keep='first': only the repeats are marked.
AllDuplicatesRepeatsOnly(frame) ==
  SelectSeq(frame, LAMBDA r :
    \E j \in 1..Len(frame) :
      frame[j].index < r.index /\ RowValues(frame[j]) = RowValues(r))

\* df[df.duplicated(keep=False)]: every row whose values occur more than
\* once (missing values compare equal to each other).
AllDuplicates(frame) ==
  SelectSeq(frame, LAMBDA r : Occurrences(frame, RowValues(r)) > 1)

RECURSIVE DropSeen(_, _)
\* The scan of drop_duplicates: a row is dropped when its values were seen.
DropSeen(rows, seen) ==
  IF rows = <<>> THEN <<>>
  ELSE LET v == RowValues(Head(rows))
       IN  IF v \in seen THEN DropSeen(Tail(rows), seen)
           ELSE <<Head(rows)>> \o DropSeen(Tail(rows), seen \cup {v})

RECURSIVE DropAdjacent(_)
\* A row is dropped only when it repeats the row just before it.
DropAdjacent(rows) ==
  IF Len(rows) < 2 THEN rows
  ELSE IF RowValues(rows[1]) = RowValues(rows[2])
       THEN DropAdjacent(<<rows[1]>> \o Tail(Tail(rows)))
       ELSE <<rows[1]>> \o DropAdjacent(Tail(rows))

\* df.drop_duplicates(inplace=True): keep='first', index labels kept.
DropDuplicates(frame) == DropSeen(frame, {})

\* NaN + x is NaN.
Plus(a, b) == IF a = NaN \/ b = NaN THEN NaN ELSE a + b

\* df['combined_value'] = df['sensor_reading'] + df['control_value']
Derive(frame) ==
  [i \in 1..Len(frame) |->
     [c \in DOMAIN frame[i] \cup {"combined_value"} |->
        IF c = "combined_value"
        THEN Plus(frame[i].sensor_reading, frame[i].control_value)
        ELSE frame[i][c]]]

\* Series.mean(): over the non-missing values, held as sum and count
\* (NaN when the count is 0).
SeriesMean(frame, col) ==
  LET v == ColumnValues(frame, col) IN [sum |-> SumSeq(v), n |-> Len(v)]

\* Series.median(): twice the median of the non-missing values (the middle
\* value, or the mean of the two middle values); NaN over no value.
SeriesMedian2(frame, col) ==
  LET v == SortSeq(ColumnValues(frame, col), LAMBDA a, b : a < b)
      n == Len(v)
  IN  IF n = 0 THEN NaN
      ELSE IF n % 2 = 1 THEN 2 * v[(n + 1) \div 2]
      ELSE v[n \div 2] + v[n \div 2 + 1]

\* How many times x occurs in the sequence v.
CountIn(v, x) == Cardinality({i \in 1..Len(v) : v[i] = x})

RECURSIVE FirstSeen(_, _)
\* The values of v that are in S, each once, in the order they first appear.
FirstSeen(v, S) ==
  IF v = <<>> THEN <<>>
  ELSE IF Head(v) \in S THEN <<Head(v)>> \o FirstSeen(Tail(v), S \ {Head(v)})
       ELSE FirstSeen(Tail(v), S)

\* The values of the highest count in the order they are met, unsorted.
SeriesModeUnsorted(frame, col) ==
  LET v == ColumnValues(frame, col)
  IN  FirstSeen(v, {x \in {v[i] : i \in 1..Len(v)} :
                      \A j \in 1..Len(v) : CountIn(v, v[j]) <= CountIn(v, x)})

\* Series.mode(): the non-missing values of the highest count, in ascending
\* order (dropna=True; the result is sorted).
SeriesMode(frame, col) ==
  LET v == ColumnValues(frame, col)
      top == {x \in {v[i] : i \in 1..Len(v)} :
                \A j \in 1..Len(v) : CountIn(v, v[j]) <= CountIn(v, x)}
  IN  SortSeq(SetToSeq(top), LAMBDA a, b : a < b)

\* compute_stats(column): (mean_val, median_val, mode_val).
compute_stats(frame, col) ==
  LET mode_series == SeriesMode(frame, col)
  IN  [mean   |-> SeriesMean(frame, col),
       median |-> SeriesMedian2(frame, col),
       mode   |-> IF mode_series # <<>> THEN mode_series[1] ELSE NaN]

\* ------------------------------------------------------------------ state

VARIABLES
  pc,          \* the cell of the second notebook that runs next
  spark,       \* the session: "none", "active" or "stopped"
  source,      \* the rows of combined.csv
  keep,        \* the draws of the generator seeded with 42, by position
  df,          \* Task 1
  stats_row,   \* Task 2: mean_moisture and stddev_moisture
  df_clean,    \* Task 2
  filtered_df, \* Task 3
  stats,       \* Task 4
  df_interp,   \* Task 5
  plot_thread, \* Task 6: "none", "started" or "finished"
  chart,       \* whether stats_plot.png has been written
  exit_status, \* -1 while the script runs, then its exit status
  events,      \* what the run has done so far, in order
  \* first notebook
  pc1,            \* the cell of the first notebook that runs next
  csv,            \* the rows of train.csv: <<sensor_reading, control_value>>
  frame,          \* df
  frame_before,   \* df as the latest run of the duplicates cell found it
  n_duplicates,   \* all_duplicates.shape[0] as last reported
  runs,           \* how many times the duplicates cell has run
  sensor_stats,   \* compute_stats('sensor_reading')
  control_stats,  \* compute_stats('control_value')
  combined_stats, \* compute_stats('combined_value')
  \* the filters and the interpolation applied on their own
  op_in,       \* the dataset they are given
  op_done,     \* which of them have been applied
  op_interp,   \* the interpolation of op_in
  op_zp,       \* outlier filter, then predicate filter
  op_pz,       \* predicate filter, then outlier filter
  op_pzfixed   \* predicate filter, then z-score filter with op_in's estimates

\* The second notebook's own state.
nb2 ==
  <<pc, spark, source, df, stats_row, df_clean, filtered_df, stats,
    df_interp, plot_thread, chart, exit_status, events>>

\* The first notebook's state.
nb1 ==
  <<pc1, csv, frame, frame_before, n_duplicates, runs, sensor_stats,
    control_stats, combined_stats>>

\* The state of the operations applied on their own.
ops == <<op_in, op_done, op_interp, op_zp, op_pz, op_pzfixed>>

vars == <<nb2, keep, nb1, ops>>

\* The datasets and values the tasks compute.
data == <<df, stats_row, df_clean, filtered_df, stats, df_interp>>

\* ------------------------------------------------------------- input rows

\* A row every range accepts, with the given soil_moisture and pH.
Valid(ts, sm, ph) ==
  Row(ts, sm, 60 * Scale, 5 * Scale, 2 * Scale, 50 * Scale, 20 * Scale, ph)

\* The rows a source file is made of: rows inside every range (two of them on
\* the bounds), and rows with a null or an out-of-range field.
RowPool ==
  { Valid(1, 50 * Scale, 7 * Scale),
    Valid(2, 52 * Scale, 4 * Scale + 10),
    Valid(3, 90 * Scale, 4 * Scale + 10),
    Row(4, 0, 0, 0, 0, 0, 0, 4 * Scale),
    Row(5, 100 * Scale, 100 * Scale, 10 * Scale, 5 * Scale, 100 * Scale,
        40 * Scale, 9 * Scale),
    Row(6, 50 * Scale, 60 * Scale, NULL, 2 * Scale, 50 * Scale, 20 * Scale,
        7 * Scale),
    Row(7, 90 * Scale, 60 * Scale, 5 * Scale, 2 * Scale, 50 * Scale,
        20 * Scale, 9 * Scale + 1),
    Row(8, -1, 60 * Scale, 5 * Scale, 2 * Scale, 50 * Scale, 20 * Scale,
        7 * Scale) }

\* The declared inclusive range of each range-constrained column.
Ranges ==
  [soil_moisture        |-> <<0 * Scale, 100 * Scale>>,
   soil_water_content   |-> <<0 * Scale, 100 * Scale>>,
   carbon_percent       |-> <<0 * Scale, 10 * Scale>>,
   nitrogen_percent     |-> <<0 * Scale, 5 * Scale>>,
   atmospheric_humidity |-> <<0 * Scale, 100 * Scale>>,
   temperature          |-> <<0 * Scale, 40 * Scale>>,
   pH                   |-> <<4 * Scale, 9 * Scale>>]

\* Rows for the ingestion check that every range accepts: a row inside every
\* range, the row on every lower bound (without timestamp, for which no range
\* is declared), and the row on every upper bound.
GoodRows ==
  LET mid == Valid(1, 50 * Scale, 7 * Scale)
  IN  { mid,
        [c \in DOMAIN mid |-> IF c = "timestamp" THEN NULL ELSE Ranges[c][1]],
        [c \in DOMAIN mid |-> IF c = "timestamp" THEN 3 ELSE Ranges[c][2]] }

\* Rows some range rejects: for each range-constrained column, the row with
\* only that column null, just below its range, and just above it.
BadRows ==
  LET one(c, v) == [Valid(9, 50 * Scale, 7 * Scale) EXCEPT ![c] = v]
  IN  { one(c, NULL) : c \in DOMAIN Ranges }
      \cup { one(c, Ranges[c][1] - 1) : c \in DOMAIN Ranges }
      \cup { one(c, Ranges[c][2] + 1) : c \in DOMAIN Ranges }

\* Rows the operations are applied to on their own: rows of the predicate
\* (soil_moisture > 80, pH < 5), rows outside it, and rows without
\* carbon_percent (one of them without soil_moisture).
OpPool ==
  { Valid(1, 50 * Scale, 7 * Scale),
    Valid(2, 90 * Scale, 4 * Scale + 10),
    Valid(3, 92 * Scale, 7 * Scale),
    Valid(4, 100 * Scale, 4 * Scale + 10),
    Row(5, 50 * Scale + 7, 60 * Scale, NULL, 2 * Scale, 50 * Scale, 20 * Scale,
        7 * Scale),
    Row(6, NULL, 60 * Scale, NULL, 2 * Scale, 50 * Scale, 20 * Scale,
        7 * Scale) }

\* The values of a cell of train.csv.
CsvValues == {1, 2, NaN}

\* The sequences over S of length at most n.
SeqsUpTo(S, n) == UNION { [1..k -> S] : k \in 0..n }

\* Nothing computed yet.
NoStats == [n |-> 0, sum |-> 0, sumsq |-> 0]

\* Nothing computed yet by compute_stats.
NoColumnStats == [mean |-> [sum |-> 0, n |-> 0], median |-> NaN, mode |-> NaN]

\* The first notebook is not running.
Idle1 ==
  /\ pc1 = "idle"
  /\ csv = <<>>
  /\ frame = <<>>
  /\ frame_before = <<>>
  /\ n_duplicates = 0
  /\ runs = 0
  /\ sensor_stats = NoColumnStats
  /\ control_stats = NoColumnStats
  /\ combined_stats = NoColumnStats

\* No operation is applied on its own.
IdleOps ==
  /\ op_in = <<>>
  /\ op_done = {}
  /\ op_interp = <<>>
  /\ op_zp = <<>>
  /\ op_pz = <<>>
  /\ op_pzfixed = <<>>

\* The second notebook before its first cell runs, on source rows src.
Start2(src) ==
  /\ pc = "session"
  /\ spark = "none"
  /\ source = src
  /\ df = <<>>
  /\ stats_row = NoStats
  /\ df_clean = <<>>
  /\ filtered_df = <<>>
  /\ stats = StatSummary(<<>>)
  /\ df_interp = <<>>
  /\ plot_thread = "none"
  /\ chart = FALSE
  /\ exit_status = -1
  /\ events = <<>>

Init ==
  /\ \E src \in SeqsUpTo(RowPool, MaxRows) : Start2(src)
  /\ keep \in [1..MaxRows -> BOOLEAN]
  /\ Idle1
  /\ IdleOps

\* The pipeline on files of accepted rows followed by rejected rows (the
\* range filter looks at one row at a time), with every row drawn.
InitIngest ==
  /\ \E good \in SeqsUpTo(GoodRows, MaxGoodRows) :
       \E bad \in SeqsUpTo(BadRows, MaxBadRows) : Start2(good \o bad)
  /\ keep = [i \in 1..(MaxGoodRows + MaxBadRows) |-> TRUE]
  /\ Idle1
  /\ IdleOps

\* ---------------------------------------------------------------- actions

\* An exception nothing catches: the interpreter prints the traceback and the
\* script ends with status 1.  Nothing stops the session on this path.
Uncaught(stage) ==
  /\ pc' = "exited"
  /\ exit_status' = 1
  /\ events' = events \o <<stage, "uncaught">>
  /\ UNCHANGED <<spark, plot_thread, chart>>

\* Cell 4: spark = spark_builder.getOrCreate().
CreateSession ==
  /\ pc = "session"
  /\ spark' = "active"
  /\ pc' = "task1"
  /\ events' = events \o <<"session">>
  /\ UNCHANGED <<source, keep, data, plot_thread, chart, exit_status, nb1, ops>>

\* Task 1 with a handler that calls exit(1) and leaves the session running.
Task1ExitOnly ==
  /\ pc = "task1"
  /\ \E raised \in BOOLEAN :
       IF raised
       THEN /\ exit_status' = 1
            /\ pc' = "exited"
            /\ events' = events \o <<"task1", "exit(1)">>
            /\ UNCHANGED <<df, spark>>
       ELSE /\ df' = IngestFilter(source)
            /\ pc' = "task2"
            /\ events' = events \o <<"task1">>
            /\ UNCHANGED <<spark, exit_status>>
  /\ UNCHANGED <<source, keep, stats_row, df_clean, filtered_df, stats,
                 df_interp, plot_thread, chart, nb1, ops>>

\* Task 1: read with the schema, filter by the ranges, count a sample.  The
\* try body raises when the source cannot be read; the handler stops the
\* session and calls exit(1).
Task1 ==
  /\ pc = "task1"
  /\ \E raised \in BOOLEAN :
       IF raised
       THEN /\ spark' = "stopped"
            /\ exit_status' = 1
            /\ pc' = "exited"
            /\ events' = events \o <<"task1", "stop", "exit(1)">>
            /\ UNCHANGED df
       ELSE /\ df' = IngestFilter(source)
            /\ pc' = "task2"
            /\ events' = events \o <<"task1">>
            /\ UNCHANGED <<spark, exit_status>>
  /\ UNCHANGED <<source, keep, stats_row, df_clean, filtered_df, stats,
                 df_interp, plot_thread, chart, nb1, ops>>

\* Task 2: estimate mean and stddev from the seeded sample, filter by z-score.
Task2 ==
  /\ pc = "task2"
  /\ \E raised \in BOOLEAN :
       IF raised
       THEN /\ Uncaught("task2")
            /\ UNCHANGED <<stats_row, df_clean>>
       ELSE /\ stats_row' = SampleStats(df, keep)
            /\ df_clean' = OutlierFilter(df, keep)
            /\ pc' = "task3"
            /\ events' = events \o <<"task2">>
            /\ UNCHANGED <<spark, plot_thread, chart, exit_status>>
  /\ UNCHANGED <<source, keep, df, filtered_df, stats, df_interp, nb1, ops>>

\* Task 3: the predicate filter.  (The sorted sample is only shown.)
Task3 ==
  /\ pc = "task3"
  /\ \E raised \in BOOLEAN :
       IF raised
       THEN /\ Uncaught("task3")
            /\ UNCHANGED filtered_df
       ELSE /\ filtered_df' = PredicateFilter(df_clean)
            /\ pc' = "task4"
            /\ events' = events \o <<"task3">>
            /\ UNCHANGED <<spark, plot_thread, chart, exit_status>>
  /\ UNCHANGED <<source, keep, df, stats_row, df_clean, stats, df_interp, nb1,
                 ops>>

\* Task 4: collect the aggregates, then print them; formatting a None raises.
Task4 ==
  /\ pc = "task4"
  /\ \E raised \in BOOLEAN :
       IF raised
       THEN /\ Uncaught("task4")
            /\ UNCHANGED stats
       ELSE /\ stats' = StatSummary(df_clean)
            /\ IF FormatRaises(stats'.carbon) \/ FormatRaises(stats'.nitrogen)
               THEN Uncaught("task4")
               ELSE /\ pc' = "task5"
                    /\ events' = events \o <<"task4">>
                    /\ UNCHANGED <<spark, plot_thread, chart, exit_status>>
  /\ UNCHANGED <<source, keep, df, stats_row, df_clean, filtered_df, df_interp,
                 nb1, ops>>

\* Task 5: interpolate, then sample, split, fit and predict.  The fit raises
\* on an empty training set, which an empty sample forces.
Task5 ==
  /\ pc = "task5"
  /\ \E fitted \in BOOLEAN :
       /\ df_interp' = Interpolate(df_clean)
       /\ IF fitted /\ Sample(df_interp', keep) # <<>>
          THEN /\ pc' = "task6"
               /\ events' = events \o <<"task5">>
               /\ UNCHANGED <<spark, plot_thread, chart, exit_status>>
          ELSE Uncaught("task5")
  /\ UNCHANGED <<source, keep, df, stats_row, df_clean, filtered_df, stats, nb1,
                 ops>>

\* Task 6, main thread: plot_thread.start().
Task6Start ==
  /\ pc = "task6"
  /\ plot_thread' = "started"
  /\ pc' = "join"
  /\ events' = events \o <<"task6", "start">>
  /\ UNCHANGED <<spark, source, keep, data, chart, exit_status, nb1, ops>>

\* Task 6, worker thread: plot_stats(stats, "stats_plot.png").  An exception
\* in it ends the worker only (threading prints it); stats is only read.
PlotStats ==
  /\ plot_thread = "started"
  /\ \E saved \in BOOLEAN :
       /\ chart' = saved
       /\ events' = events \o <<IF saved THEN "savefig" ELSE "plot raised">>
  /\ plot_thread' = "finished"
  /\ UNCHANGED <<pc, spark, source, keep, data, exit_status, nb1, ops>>

\* Task 6 without the join: the report does not wait for the worker.
Task6ReportWithoutJoin ==
  /\ pc = "join"
  /\ pc' = "final"
  /\ events' = events \o <<"saved report">>
  /\ UNCHANGED <<spark, source, keep, data, plot_thread, chart, exit_status, nb1,
                 ops>>

\* Task 6, main thread: plot_thread.join() returns, then the report.
Task6Join ==
  /\ pc = "join"
  /\ plot_thread = "finished"
  /\ pc' = "final"
  /\ events' = events \o <<"joined", "saved report">>
  /\ UNCHANGED <<spark, source, keep, data, plot_thread, chart, exit_status, nb1,
                 ops>>

\* Final cell: report the runtime, spark.stop(), then main(), a name the
\* notebook never defines: NameError, uncaught.
Final ==
  /\ pc = "final"
  /\ spark' = "stopped"
  /\ pc' = "exited"
  /\ exit_status' = 1
  /\ events' = events \o <<"final", "stop", "main()", "uncaught">>
  /\ UNCHANGED <<source, keep, data, plot_thread, chart, nb1, ops>>

Next ==
  \/ CreateSession
  \/ Task1
  \/ Task2
  \/ Task3
  \/ Task4
  \/ Task5
  \/ Task6Start
  \/ PlotStats
  \/ Task6Join
  \/ Final

Spec == Init /\ [][Next]_vars

\* The same pipeline on the files of InitIngest.
SpecIngest == InitIngest /\ [][Next]_vars

\* ------------------------------- the operations of Task 2, 3 and 5 alone

\* A dataset and the draws of the seeded generator; nothing applied yet.
InitOps ==
  /\ op_in \in SeqsUpTo(OpPool, MaxOpRows)
  /\ keep \in [1..MaxOpRows -> BOOLEAN]
  /\ op_done = {}
  /\ op_interp = <<>>
  /\ op_zp = <<>>
  /\ op_pz = <<>>
  /\ op_pzfixed = <<>>
  /\ Idle1
  /\ Start2(<<>>)

\* Task 5's withColumn on op_in.
ApplyInterpolate ==
  /\ "interp" \notin op_done
  /\ op_interp' = Interpolate(op_in)
  /\ op_done' = op_done \cup {"interp"}
  /\ UNCHANGED <<op_in, op_zp, op_pz, op_pzfixed, keep, nb1, nb2>>

\* The order of the notebook: Task 2's outlier filter, then Task 3's filter.
ApplyOutlierThenPredicate ==
  /\ "zp" \notin op_done
  /\ op_zp' = PredicateFilter(OutlierFilter(op_in, keep))
  /\ op_done' = op_done \cup {"zp"}
  /\ UNCHANGED <<op_in, op_interp, op_pz, op_pzfixed, keep, nb1, nb2>>

\* The other order: Task 3's filter, then Task 2's outlier filter, which
\* samples the dataset it is given.
ApplyPredicateThenOutlier ==
  /\ "pz" \notin op_done
  /\ op_pz' = OutlierFilter(PredicateFilter(op_in), keep)
  /\ op_done' = op_done \cup {"pz"}
  /\ UNCHANGED <<op_in, op_interp, op_zp, op_pzfixed, keep, nb1, nb2>>

\* Task 3's filter, then the z-score filter of Task 2 with the estimates
\* taken from the sample of op_in.
ApplyPredicateThenZScore ==
  /\ "pzfixed" \notin op_done
  /\ op_pzfixed' = ZScoreFilter(PredicateFilter(op_in), SampleStats(op_in, keep))
  /\ op_done' = op_done \cup {"pzfixed"}
  /\ UNCHANGED <<op_in, op_interp, op_zp, op_pz, keep, nb1, nb2>>

NextOps ==
  \/ ApplyInterpolate
  \/ ApplyOutlierThenPredicate
  \/ ApplyPredicateThenOutlier
  \/ ApplyPredicateThenZScore

SpecOps == InitOps /\ [][NextOps]_vars

\* --------------------------------------------------- the first notebook

InitNb1 ==
  /\ pc1 = "read"
  /\ csv \in SeqsUpTo(CsvValues \X CsvValues, MaxCsvRows)
  /\ frame = <<>>
  /\ frame_before = <<>>
  /\ n_duplicates = 0
  /\ runs = 0
  /\ sensor_stats = NoColumnStats
  /\ control_stats = NoColumnStats
  /\ combined_stats = NoColumnStats
  /\ keep = [i \in 1..MaxRows |-> FALSE]
  /\ Start2(<<>>)
  /\ IdleOps

\* Cell 2: df = pd.read_csv('train.csv').
ReadCell ==
  /\ pc1 = "read"
  /\ frame' = ReadCsv(csv)
  /\ pc1' = "duplicates"
  /\ UNCHANGED <<csv, frame_before, n_duplicates, runs, sensor_stats,
                 control_stats, combined_stats, keep, nb2, ops>>

\* Cell 3: count all_duplicates, then drop_duplicates in place.  The cell
\* can be run again on the frame it left.
DuplicatesCell ==
  /\ pc1 \in {"duplicates", "derive"}
  /\ runs < MaxDedupRuns
  /\ n_duplicates' = Len(AllDuplicates(frame))
  /\ frame_before' = frame
  /\ frame' = DropDuplicates(frame)
  /\ runs' = runs + 1
  /\ pc1' = "derive"
  /\ UNCHANGED <<csv, sensor_stats, control_stats, combined_stats, keep, nb2,
                 ops>>

\* Cell 4: the derived column (and the definition of compute_stats).
DeriveCell ==
  /\ pc1 = "derive"
  /\ frame' = Derive(frame)
  /\ pc1' = "stats"
  /\ UNCHANGED <<csv, frame_before, n_duplicates, runs, sensor_stats,
                 control_stats, combined_stats, keep, nb2, ops>>

\* Cell 5: compute_stats for the three columns.
StatsCell ==
  /\ pc1 = "stats"
  /\ sensor_stats' = compute_stats(frame, "sensor_reading")
  /\ control_stats' = compute_stats(frame, "control_value")
  /\ combined_stats' = compute_stats(frame, "combined_value")
  /\ pc1' = "done"
  /\ UNCHANGED <<csv, frame, frame_before, n_duplicates, runs, keep, nb2, ops>>

NextNb1 ==
  \/ ReadCell
  \/ DuplicatesCell
  \/ DeriveCell
  \/ StatsCell

SpecNb1 == InitNb1 /\ [][NextNb1]_vars

\* ------------------------------------------------ properties: the pipeline

\* The run has gone through the given step.
Did(step) == \E i \in 1..Len(events) : events[i] = step

\* The stages that follow ingestion.
LaterStages == {"task2", "task3", "task4", "task5", "task6"}

\* C1: on every exit path that follows the creation of the session, the
\* session has been stopped by the time the pipeline ends.
C1_SessionReleasedOnEveryExit ==
  (pc = "exited" /\ Did("session")) => spark = "stopped"

WithinThreeSigma(v, st) ==
  (st.n * v - st.sum) * (st.n * v - st.sum) * (st.n - 1)
    <= 9 * st.n * (st.n * st.sumsq - st.sum * st.sum)

\* C4: once Task 2 has estimated a mean and a standard deviation from the
\* sample, df_clean holds exactly the rows of df whose soil_moisture is within
\* three estimated standard deviations of the estimated mean.
C4_RetainedExactlyWithinThreeSigma ==
  (Did("task2") /\ stats_row.n >= 2) =>
    df_clean = SelectSeq(df, LAMBDA r : WithinThreeSigma(r.soil_moisture, stats_row))

\* C5: when the estimated standard deviation is zero, the outlier filter
\* fails; the pipeline does not go on with a filtered dataset.
C5_ZeroStddevFails ==
  (stats_row.n >= 2 /\ VarNum(stats_row) = 0) => ~Did("task2")

\* A row (of the schema, or with more columns) lies inside every range.
InRanges(r) ==
  \A c \in DOMAIN Ranges :
    r[c] # NULL /\ Ranges[c][1] <= r[c] /\ r[c] <= Ranges[c][2]

\* The datasets made from the source so far: df and those derived from it.
Derived == {df, df_clean, filtered_df, df_interp}

\* C3: every row of df, and of every dataset derived from it, lies inside
\* every declared range; no source row outside a range is among them.
C3_OutputWithinRanges ==
  \A ds \in Derived :
    /\ \A i \in 1..Len(ds) : InRanges(ds[i])
    /\ \A j \in 1..Len(source) :
         ~InRanges(source[j]) =>
           \A i \in 1..Len(ds) : \E c \in DOMAIN source[j] : ds[i][c] # source[j][c]

\* A file with a row outside a range and a row inside has been ingested,
\* filtered and interpolated.
C3_Witness ==
  /\ Did("task5")
  /\ \E j \in 1..Len(source) : ~InRanges(source[j])
  /\ df # <<>>
  /\ df_interp # <<>>

\* --------------------------------------- properties: the first notebook

\* The positions of the frame whose values also stand at another position.
Repeated(f) ==
  {i \in 1..Len(f) :
     \E j \in 1..Len(f) : j # i /\ RowValues(f[j]) = RowValues(f[i])}

\* The row of f that holds the values v first.
FirstWith(f, v) ==
  f[CHOOSE i \in 1..Len(f) :
      /\ RowValues(f[i]) = v
      /\ \A j \in 1..(i - 1) : RowValues(f[j]) # v]

\* C6: the duplicates cell (a) reports the number of rows whose values occur
\* at least twice, all occurrences counted, and (b) leaves, for every
\* distinct tuple of values, exactly its first row, in the original order.
C6_DeduplicatorContract ==
  (pc1 = "derive") =>
    /\ n_duplicates = Cardinality(Repeated(frame_before))
    /\ \A i \in 1..Len(frame_before) :
         \E k \in 1..Len(frame) :
           /\ frame[k] = FirstWith(frame_before, RowValues(frame_before[i]))
           /\ \A m \in 1..Len(frame) :
                RowValues(frame[m]) = RowValues(frame[k]) => m = k
    /\ \A k \in 1..Len(frame) :
         \E i \in 1..Len(frame_before) : frame[k] = frame_before[i]
    /\ \A k, m \in 1..Len(frame) : k < m => frame[k].index < frame[m].index

\* The cell has counted repeated rows and removed one that stood before a
\* row it kept.
C6_Witness ==
  /\ pc1 = "derive"
  /\ runs = 1
  /\ n_duplicates >= 2
  /\ Len(frame) >= 2
  /\ Len(frame) < Len(frame_before)
  /\ \E k \in 1..Len(frame) : frame[k].index # k - 1

\* C7: run on its own output, the duplicates cell reports no duplicate row
\* and leaves the frame as it is.
C7_DeduplicatorIdempotent ==
  (pc1 = "derive" /\ runs >= 2) => (n_duplicates = 0 /\ frame = frame_before)

\* The cell has run twice, and its first run removed rows.
C7_Witness ==
  /\ pc1 = "derive"
  /\ runs = 2
  /\ Len(frame) >= 2
  /\ Len(frame) < Len(csv)

\* The statistics cell's result for each of its three columns.
ColumnResults ==
  { <<"sensor_reading", sensor_stats>>, <<"control_value", control_stats>>,
    <<"combined_value", combined_stats>> }

\* The non-missing values of the column that no value outnumbers.
TopValues(col) ==
  LET v == ColumnValues(frame, col)
  IN  {v[i] : i \in {i \in 1..Len(v) :
                       \A j \in 1..Len(v) : CountIn(v, v[j]) <= CountIn(v, v[i])}}

\* The value of TopValues(col) met first in the column.
FirstTopValue(col) ==
  LET v == ColumnValues(frame, col)
  IN  v[CHOOSE i \in 1..Len(v) :
          /\ v[i] \in TopValues(col)
          /\ \A j \in 1..(i - 1) : v[j] \notin TopValues(col)]

\* The smallest value of TopValues(col).
LeastTopValue(col) ==
  CHOOSE x \in TopValues(col) : \A y \in TopValues(col) : x <= y

\* C9 as claimed: the mode is a value of the highest count, the one met first
\* in the column among those that tie; NaN without any non-missing value.
C9_ModeFirstEncountered ==
  (pc1 = "done") =>
    \A cr \in ColumnResults :
      IF TopValues(cr[1]) = {} THEN cr[2].mode = NaN
      ELSE cr[2].mode = FirstTopValue(cr[1])

\* C9 as the code has it: the mode is a value of the highest count, the
\* smallest one among those that tie; NaN without any non-missing value.
C9_ModeSmallestOfTied ==
  (pc1 = "done") =>
    \A cr \in ColumnResults :
      IF TopValues(cr[1]) = {} THEN cr[2].mode = NaN
      ELSE cr[2].mode = LeastTopValue(cr[1])

\* Statistics computed over a column whose first value ties with a smaller
\* one, and over a column without any value.
C9_Witness ==
  /\ pc1 = "done"
  /\ \E cr \in ColumnResults :
       /\ Cardinality(TopValues(cr[1])) >= 2
       /\ FirstTopValue(cr[1]) # LeastTopValue(cr[1])
  /\ \E cr \in ColumnResults : TopValues(cr[1]) = {} /\ frame # <<>>

\* ------------------------------- properties: the operations on their own

\* C8: the interpolation gives every row the new column, 0.05 times
\* soil_moisture where carbon_percent is null and carbon_percent elsewhere,
\* and leaves every other column of every row, and the rows, as they were.
\* (The new column is in 1/(Scale*Scale) units: x/(Scale*Scale) equals
\* 0.05 * sm/Scale when 20 * x = Scale * sm, and equals c/Scale when
\* x = Scale * c.)
C8_InterpolationFrame ==
  ("interp" \in op_done) =>
    /\ Len(op_interp) = Len(op_in)
    /\ \A i \in 1..Len(op_in) :
         LET old == op_in[i]
             new == op_interp[i]
             x == new.carbon_percent_interp
         IN  /\ DOMAIN new = DOMAIN old \cup {"carbon_percent_interp"}
             /\ \A c \in DOMAIN old : new[c] = old[c]
             /\ IF old.carbon_percent # NULL
                THEN x # NULL /\ x = Scale * old.carbon_percent
                ELSE IF old.soil_moisture = NULL THEN x = NULL
                ELSE x # NULL /\ 20 * x = Scale * old.soil_moisture

\* The interpolation has been applied to rows with and without
\* carbon_percent.
C8_Witness ==
  /\ "interp" \in op_done
  /\ \E i \in 1..Len(op_in) :
       op_in[i].carbon_percent = NULL /\ op_in[i].soil_moisture # NULL
  /\ \E i \in 1..Len(op_in) : op_in[i].carbon_percent # NULL

\* The rows of a dataset, as a set.
RowSet(ds) == {ds[i] : i \in 1..Len(ds)}

\* C10 as claimed: the predicate filter and the outlier filter give the same
\* rows in either order.
C10_FiltersCommute ==
  ({"zp", "pz"} \subseteq op_done) => RowSet(op_zp) = RowSet(op_pz)

\* C10 as the code has it: with the mean and the standard deviation
\* estimated once, from the sample of the dataset both orders start from, the
\* predicate filter and the z-score filter give the same rows in either order.
C10_FiltersCommuteOnFixedEstimates ==
  ({"zp", "pzfixed"} \subseteq op_done) => op_zp = op_pzfixed

\* Both orders have been applied where each filter removes a row the other
\* keeps, and a row is left.
C10_Witness ==
  /\ {"zp", "pzfixed"} \subseteq op_done
  /\ op_zp # <<>>
  /\ RowSet(op_zp) # RowSet(PredicateFilter(op_in))
  /\ RowSet(op_zp) # RowSet(OutlierFilter(op_in, keep))

\* ------------------------------------------- properties: the worker thread

\* A step of the main thread.
MainStep ==
  \/ CreateSession
  \/ Task1
  \/ Task2
  \/ Task3
  \/ Task4
  \/ Task5
  \/ Task6Start
  \/ Task6Join
  \/ Final

\* The places of the run at which the given step stands.
Places(step) == {i \in 1..Len(events) : events[i] = step}

\* The places at which the worker ended, with the chart saved or not.
WorkerEnd == Places("savefig") \cup Places("plot raised")

\* C11: one worker thread renders the chart and the main thread joins it:
\* while the worker runs, no step of the main thread can be taken; the
\* report and the stop of the session come after the worker's end; and the
\* statistics of Task 4 are what they were when the worker started.
C11_FireAndJoin ==
  /\ Cardinality(Places("start")) <= 1
  /\ plot_thread = "started" =>
       /\ pc = "join"
       /\ ~ENABLED MainStep
       /\ spark = "active"
       /\ Places("saved report") = {}
  /\ \A i \in Places("saved report") :
       plot_thread = "finished" /\ \E w \in WorkerEnd : w < i
  /\ \A i \in Places("stop") :
       Places("start") # {} => \E w \in WorkerEnd : w < i
  /\ Places("task6") # {} => stats = StatSummary(df_clean)

\* A run that started the worker, joined it, reported and stopped the
\* session, with a chart written from statistics over several rows.
C11_Witness ==
  /\ plot_thread = "finished"
  /\ chart
  /\ Places("saved report") # {}
  /\ spark = "stopped"
  /\ Len(df_clean) >= 2

\* ------------------------------------------- properties: the exit status

\* C12: the exit status tells an ingestion failure from success: a run whose
\* ingestion fails ends with a status other than 0, and a run in which every
\* stage up to the final cell completes ends with status 0.
C12_ExitStatusDistinguishes ==
  pc = "exited" =>
    /\ Places("exit(1)") # {} => exit_status # 0
    /\ Places("final") # {} => exit_status = 0

\* ------------------------------------------- properties: null carbon

\* The rows of a frame, as a set.
Rows(ds) == {ds[i] : i \in 1..Len(ds)}

\* C13: no row that passed the ingestion range filter has a null
\* carbon_percent, in any frame derived from it, so every row of df_interp
\* carries its own carbon_percent as carbon_percent_interp.
C13_NullBranchNeverTaken ==
  /\ \A r \in Rows(df) \cup Rows(df_clean) \cup Rows(filtered_df) :
       r.carbon_percent # NULL
  /\ \A r \in Rows(df_interp) :
       /\ r.carbon_percent # NULL
       /\ r.carbon_percent_interp = AsInterp(r.carbon_percent)

\* Task 5 built a non-empty df_interp from a file that had a row with a
\* null carbon_percent and no other fault.
C13_Witness ==
  /\ Places("task5") # {}
  /\ df_interp # <<>>
  /\ \E r \in Rows(source) :
       /\ r.carbon_percent = NULL
       /\ RangeCond(r) = "null"

====
